---------------------------- MODULE Spec2Model ----------------------------
(***************************************************************************)
(* Model of src/bind/houdini.py, the rez-bind file for Houdini.            *)
(*                                                                         *)
(* Python strings are modelled as sequences of one-character strings, so   *)
(* that slicing, splitting, joining, substring search, regular-expression  *)
(* matching and lexicographic comparison are computed character by         *)
(* character, as the interpreter computes them.                            *)
(*                                                                         *)
(* The module holds five specifications over one set of variables:         *)
(*   SpecVersion  get_houdini_version on bounded folder names              *)
(*   SpecPython   get_python_version on bounded states of python/bin/python*)
(*   SpecTools    get_tools on bounded contents of bin and houdini/sbin    *)
(*   SpecBind     bind, statement by statement                             *)
(*   SpecEnv      post_commands on bounded environments                    *)
(***************************************************************************)
EXTENDS Integers, Sequences, FiniteSets, TLC

VARIABLES
    hfs_name,          \* hfs_path.name: final segment of the $HFS path
    only_major_minor,  \* opts.major_minor_only
    python_bin,        \* what <root>/python/bin/python is on disk
    bin_dir,           \* <root>/bin: Missing, or present with a set of entries
    sbin_dir,          \* <root>/houdini/sbin: likewise
    environ,           \* the rex environment: variable -> Undefined or value
    prev_environ,      \* the environment before the last post_commands run
    post_runs,         \* how many times post_commands has run
    pc,                \* position of the running call
    version,           \* bind's local `version`
    requires,          \* bind's local `requires`
    pkg,               \* the PackageMaker yielded by make_package
    registry,          \* packages the registry has installed, in order
    scanned,           \* directories iterdir() has been called on
    steps,             \* bind's steps in the order they were executed
    result             \* what the running call returned or raised

vars == <<hfs_name, only_major_minor, python_bin, bin_dir, sbin_dir, environ,
          prev_environ, post_runs, pc, version, requires, pkg, registry,
          scanned, steps, result>>

-----------------------------------------------------------------------------
(* Bounds of the model *)

MaxComponents == 3
MaxTail == 4
MaxEntries == 2
MaxValueLen == 1
MaxPostRuns == 2

-----------------------------------------------------------------------------
(* Values shared by the calls *)

None == [kind |-> "none"]
Ok(v) == [kind |-> "ok", value |-> v]
Raise(type, what) == [kind |-> "error", type |-> type, what |-> what]

Missing == [exists |-> FALSE]

SeqsUpTo(S, n) == UNION {[1..k -> S] : k \in 0..n}

Drop(s, n) == IF Len(s) <= n THEN <<>> ELSE SubSeq(s, n + 1, Len(s))

Take(s, n) == IF Len(s) <= n THEN s ELSE SubSeq(s, 1, n)

\* Python's `sub in s` on strings
Contains(s, sub) ==
    \E i \in 1..(Len(s) - Len(sub) + 1) : SubSeq(s, i, i + Len(sub) - 1) = sub

-----------------------------------------------------------------------------
(* get_houdini_version *)

PrefixLen == 3

\* str.split("."): the pieces between the dots; "" splits to [""]
RECURSIVE Split(_)
Split(s) ==
    IF \A i \in 1..Len(s) : s[i] # "."
    THEN <<s>>
    ELSE LET d == CHOOSE i \in 1..Len(s) :
                      s[i] = "." /\ \A j \in 1..(i - 1) : s[j] # "."
         IN  <<SubSeq(s, 1, d - 1)>> \o Split(SubSeq(s, d + 1, Len(s)))

\* ".".join(components)
RECURSIVE Join(_)
Join(components) ==
    IF Len(components) = 0 THEN <<>>
    ELSE IF Len(components) = 1 THEN components[1]
    ELSE components[1] \o <<".">> \o Join(Tail(components))

\* folder_name[3:]
FolderPayload(folder_name) == Drop(folder_name, PrefixLen)

\* Faulty variant: the truncation ignores the flag
TruncateAlways(components, flag) ==
    IF Len(components) > 2 THEN Take(components, 2) ELSE components

\* if len(components) > 2 and only_major_minor: components = components[:2]
Truncate(components, flag) ==
    IF Len(components) > 2 /\ flag THEN Take(components, 2) ELSE components

\* Faulty variant: the payload is taken by indexing, which raises on a
\* short name
get_houdini_version_indexing(folder_name, flag) ==
    IF Len(folder_name) <= PrefixLen
    THEN Raise("IndexError", folder_name)
    ELSE Ok(Join(Truncate(Split(FolderPayload(folder_name)), flag)))

get_houdini_version(folder_name, flag) ==
    Ok(Join(Truncate(Split(FolderPayload(folder_name)), flag)))

\* Folder names: a three-character prefix and a dotted payload, and names
\* of fewer than three characters
Components ==
    {<<>>, <<"1", "9">>, <<"5">>, <<"4", "9", "3">>, <<"a", "b", "c">>}

Payloads == {<<>>} \cup {Join(cs) : cs \in SeqsUpTo(Components, MaxComponents) \ {<<>>}}

Prefixes == {<<"h", "f", "s">>, <<"x", "y", "z">>}

ShortNames == {<<>>, <<"h">>, <<"h", "f">>}

FolderNames == {p \o v : p \in Prefixes, v \in Payloads} \cup ShortNames

IdleInputs ==
    /\ python_bin = None
    /\ bin_dir = Missing
    /\ sbin_dir = Missing

IdleEnv ==
    /\ environ = <<>>
    /\ prev_environ = <<>>
    /\ post_runs = 0

IdleBind ==
    /\ version = None
    /\ requires = None
    /\ pkg = None
    /\ registry = <<>>
    /\ scanned = {}
    /\ steps = <<>>

InitVersion ==
    /\ hfs_name \in FolderNames
    /\ only_major_minor \in BOOLEAN
    /\ IdleInputs /\ IdleEnv /\ IdleBind
    /\ pc = "start"
    /\ result = None

CallGetHoudiniVersion ==
    /\ pc = "start"
    /\ result' = get_houdini_version(hfs_name, only_major_minor)
    /\ pc' = "done"
    /\ UNCHANGED <<hfs_name, only_major_minor, python_bin, bin_dir, sbin_dir,
                   environ, prev_environ, post_runs, version, requires, pkg,
                   registry, scanned, steps>>

NextVersion == CallGetHoudiniVersion

SpecVersion == InitVersion /\ [][NextVersion]_vars

\* Positions of the dots of a string
DotsOf(s) == {i \in 1..Len(s) : s[i] = "."}

\* The position of the second dot of a string that has two
SecondDot(s) ==
    CHOOSE i \in DotsOf(s) : Cardinality({j \in DotsOf(s) : j < i}) = 1

\* C3: with the payload being the name after its three-character prefix,
\* get_houdini_version returns the payload up to its second dot (the first
\* two components) when only_major_minor is set and the payload has more
\* than two components, and the payload unchanged in every other case.
C3_VersionTruncation ==
    pc = "done" =>
        LET payload == IF Len(hfs_name) > 3
                       THEN SubSeq(hfs_name, 4, Len(hfs_name)) ELSE <<>>
            ncomponents == Cardinality(DotsOf(payload)) + 1
        IN  /\ result.kind = "ok"
            /\ IF only_major_minor /\ ncomponents > 2
               THEN result.value = SubSeq(payload, 1, SecondDot(payload) - 1)
               ELSE result.value = payload

C3_Witness ==
    /\ pc = "done"
    /\ only_major_minor
    /\ hfs_name = <<"h", "f", "s", "1", "9", ".", "5", ".", "4", "9", "3">>
    /\ result = Ok(<<"1", "9", ".", "5">>)

\* C9: get_houdini_version never fails, whatever the final segment and the
\* flag: with the flag unset it returns everything after the first three
\* characters, with the flag set a leading part of that; "hfsabc" gives
\* "abc" and a segment of three or fewer characters gives the empty string.
C9_VersionNeverFails ==
    pc = "done" =>
        /\ result.kind = "ok"
        /\ ~only_major_minor =>
               /\ Len(result.value) = (IF Len(hfs_name) > 3 THEN Len(hfs_name) - 3 ELSE 0)
               /\ \A i \in 1..Len(result.value) : result.value[i] = hfs_name[i + 3]
        /\ only_major_minor =>
               /\ Len(result.value) + 3 <= (IF Len(hfs_name) > 3 THEN Len(hfs_name) ELSE 3)
               /\ \A i \in 1..Len(result.value) : result.value[i] = hfs_name[i + 3]
        /\ hfs_name = <<"h", "f", "s", "a", "b", "c">> => result.value = <<"a", "b", "c">>
        /\ Len(hfs_name) <= 3 => result.value = <<>>

C9_Witness ==
    /\ pc = "done"
    /\ Len(hfs_name) < 3
    /\ result = Ok(<<>>)

-----------------------------------------------------------------------------
(* get_python_version *)

NL == "\n"

Digits == {"0", "1", "2", "3", "4", "5", "6", "7", "8", "9"}

PythonLiteral == <<"p", "y", "t", "h", "o", "n">>

\* pathlib.Path.resolve() of <root>/python/bin/python, non-strict: a symlink
\* is followed to its target; a regular file and an absent file keep the
\* name "python". Returns the name of the resolved path.
ResolvedName(file) ==
    IF file.kind = "symlink" THEN file.target ELSE PythonLiteral

\* Where the digits of \d+ end when matching "python(\d\.\d+)$" from the
\* start of name: 0 when there is no match. The literal, one digit, a dot,
\* then the longest run of digits; Python's $ (no MULTILINE flag) matches at
\* the end of the string and also just before a newline that ends it.
MatchEnd(name) ==
    LET n == Len(name)
        lit == Len(PythonLiteral)
        ends == {k \in (lit + 3)..n :
                    /\ SubSeq(name, 1, lit) = PythonLiteral
                    /\ name[lit + 1] \in Digits
                    /\ name[lit + 2] = "."
                    /\ \A i \in (lit + 3)..k : name[i] \in Digits
                    /\ \/ k = n
                       \/ k = n - 1 /\ name[n] = NL}
    IN  IF ends = {} THEN 0 ELSE CHOOSE k \in ends : \A j \in ends : j <= k

\* result.group(1)
Group1(name) == SubSeq(name, Len(PythonLiteral) + 1, MatchEnd(name))

get_python_version(file) ==
    LET name == ResolvedName(file)
    IN  IF MatchEnd(name) = 0
        THEN Raise("RuntimeError", name)
        ELSE Ok(Group1(name))

\* Resolved file names: a stem and a tail of up to MaxTail characters
TailChars == {"3", "1", ".", NL, "a"}

Stems == {PythonLiteral, <<"p", "y", "t", "h", "o", "m">>, <<>>,
          <<"x">> \o PythonLiteral}

TargetNames == {st \o t : st \in Stems, t \in SeqsUpTo(TailChars, MaxTail)}

PythonBinStates ==
    {[kind |-> "absent"], [kind |-> "file"]}
        \cup {[kind |-> "symlink", target |-> t] : t \in TargetNames}

InitPython ==
    /\ hfs_name = <<>>
    /\ only_major_minor = FALSE
    /\ python_bin \in PythonBinStates
    /\ bin_dir = Missing
    /\ sbin_dir = Missing
    /\ IdleEnv /\ IdleBind
    /\ pc = "start"
    /\ result = None

CallGetPythonVersion ==
    /\ pc = "start"
    /\ result' = get_python_version(python_bin)
    /\ pc' = "done"
    /\ UNCHANGED <<hfs_name, only_major_minor, python_bin, bin_dir, sbin_dir,
                   environ, prev_environ, post_runs, version, requires, pkg,
                   registry, scanned, steps>>

NextPython == CallGetPythonVersion

SpecPython == InitPython /\ [][NextPython]_vars

\* "python", one digit, ".", one or more digits, and then the end of the
\* string
IsPythonMajorMinor(name) ==
    /\ Len(name) >= Len(PythonLiteral) + 3
    /\ SubSeq(name, 1, Len(PythonLiteral)) = PythonLiteral
    /\ name[Len(PythonLiteral) + 1] \in Digits
    /\ name[Len(PythonLiteral) + 2] = "."
    /\ \A i \in (Len(PythonLiteral) + 3)..Len(name) : name[i] \in Digits

\* C4: get_python_version returns the major.minor part exactly when the
\* resolved file name is "python", one digit, ".", one or more digits and
\* the end of the string; in every other case (a plain "python", an absent
\* file) it raises the error that carries the resolved path.
C4_PythonVersionExactly ==
    pc = "done" =>
        LET name == IF python_bin.kind = "symlink"
                    THEN python_bin.target ELSE PythonLiteral
        IN  IF IsPythonMajorMinor(name)
            THEN result = Ok(SubSeq(name, 7, Len(name)))
            ELSE result = Raise("RuntimeError", name)

\* The cases of C4 that the code does meet: a conforming name gives its
\* major.minor, and a plain "python" or an absent file raises.
C4_PythonVersionConforming ==
    pc = "done" =>
        LET name == IF python_bin.kind = "symlink"
                    THEN python_bin.target ELSE PythonLiteral
        IN  /\ IsPythonMajorMinor(name) => result = Ok(SubSeq(name, 7, Len(name)))
            /\ python_bin.kind \in {"absent", "file"} =>
                   result = Raise("RuntimeError", PythonLiteral)
            /\ result.kind = "ok" =>
                   \/ IsPythonMajorMinor(name)
                   \/ /\ name[Len(name)] = NL
                      /\ IsPythonMajorMinor(SubSeq(name, 1, Len(name) - 1))

C4_Witness ==
    /\ pc = "done"
    /\ python_bin = [kind |-> "symlink",
                     target |-> PythonLiteral \o <<"3", ".", "1", "1">>]
    /\ result = Ok(<<"3", ".", "1", "1">>)

-----------------------------------------------------------------------------
(* get_tools *)

BinDirName == <<"b", "i", "n">>

SbinDirName == <<"h", "o", "u", "d", "i", "n", "i", "/", "s", "b", "i", "n">>

DashBin == <<"-", "b", "i", "n">>

\* Unicode code points of the characters of the tool names: Python orders
\* strings by code point
CodePoint(c) ==
    CASE c = "-" -> 45
      [] c = "M" -> 77
      [] c = "l" -> 108
      [] c = "p" -> 112
      [] c = "a" -> 97
      [] c = "b" -> 98
      [] c = "h" -> 104
      [] c = "i" -> 105
      [] c = "m" -> 109
      [] c = "n" -> 110
      [] c = "o" -> 111
      [] c = "r" -> 114
      [] c = "t" -> 116
      [] c = "y" -> 121

\* a < b on Python strings
LexLess(a, b) ==
    \E i \in 1..(Len(b)) :
        /\ i <= Len(a) + 1
        /\ \A j \in 1..(i - 1) : a[j] = b[j]
        /\ \/ i = Len(a) + 1
           \/ i <= Len(a) /\ CodePoint(a[i]) < CodePoint(b[i])

\* x placed into the sorted list s after every element that is not greater
\* (sorted() is stable)
RECURSIVE Insert(_, _)
Insert(s, x) ==
    IF s = <<>> THEN <<x>>
    ELSE IF LexLess(x, s[Len(s)])
         THEN Insert(SubSeq(s, 1, Len(s) - 1), x) \o <<s[Len(s)]>>
         ELSE s \o <<x>>

\* Faulty variant: the list is returned in the order it was found
Unsorted(s) == s

\* sorted(found_tools)
RECURSIVE Sorted(_)
Sorted(s) ==
    IF s = <<>> THEN <<>>
    ELSE Insert(Sorted(SubSeq(s, 1, Len(s) - 1)), s[Len(s)])

\* child.is_file(): follows symbolic links
is_file(child) == child.kind \in {"file", "symlink_file"}

\* child.is_symlink()
is_symlink(child) == child.kind \in {"symlink_file", "symlink_broken"}

\* os.access(child, os.X_OK)
access_x(child) == child.exec

\* Faulty variant: the symbolic-link test is left out
KeepsChildNoSymlinkTest(child) ==
    /\ is_file(child)
    /\ ~Contains(child.name, DashBin)
    /\ access_x(child)

\* The four tests of the loop body: a child that passes none of the
\* `continue`s is appended
KeepsChild(child) ==
    /\ is_file(child)
    /\ ~Contains(child.name, DashBin)
    /\ ~is_symlink(child)
    /\ access_x(child)

\* The names the inner loop appends for one directory listing
RECURSIVE FoundIn(_)
FoundIn(children) ==
    IF children = <<>> THEN <<>>
    ELSE (IF KeepsChild(Head(children)) THEN <<Head(children).name>> ELSE <<>>)
             \o FoundIn(Tail(children))

\* Faulty variant: a directory that does not exist is skipped
IterDirSkipMissing(dir_name, listing) ==
    IF listing.exists THEN Ok(listing.entries) ELSE Ok(<<>>)

\* bin_path.iterdir(): the children in the order the filesystem gives them,
\* FileNotFoundError when the directory does not exist
IterDir(dir_name, listing) ==
    IF listing.exists
    THEN Ok(listing.entries)
    ELSE Raise("FileNotFoundError", dir_name)

\* get_tools on the listings of bin and houdini/sbin
get_tools(bin_listing, sbin_listing) ==
    LET first == IterDir(BinDirName, bin_listing)
        second == IterDir(SbinDirName, sbin_listing)
    IN  IF first.kind = "error" THEN first
        ELSE IF second.kind = "error" THEN second
        ELSE Ok(Sorted(FoundIn(first.value) \o FoundIn(second.value)))

\* The directories iterdir() is called on
ScannedBy(bin_listing) ==
    IF bin_listing.exists THEN {BinDirName, SbinDirName} ELSE {BinDirName}

\* Every order in which the filesystem may enumerate a directory
Enumerations(dir) ==
    IF ~dir.exists THEN {dir}
    ELSE LET n == Cardinality(dir.entries)
         IN  {[exists |-> TRUE, entries |-> s] :
                 s \in {t \in [1..n -> dir.entries] :
                           \A i, j \in 1..n : i # j => t[i] # t[j]}}

ToolNames == {<<"h", "y", "t", "h", "o", "n">>,
              <<"M", "p", "l", "a", "y">>,
              <<"h", "-", "b", "i", "n">>}

\* What an entry can be: a regular file, a directory, a named pipe, a
\* symbolic link to a regular file, a dangling symbolic link; with the
\* answer of os.access
EntryTypes == {[kind |-> "file", exec |-> TRUE],
               [kind |-> "file", exec |-> FALSE],
               [kind |-> "dir", exec |-> TRUE],
               [kind |-> "fifo", exec |-> TRUE],
               [kind |-> "symlink_file", exec |-> TRUE],
               [kind |-> "symlink_broken", exec |-> FALSE]}

EntriesOf(names, types) ==
    {[name |-> n, kind |-> t.kind, exec |-> t.exec] : n \in names, t \in types}

\* A missing directory, and the directories of up to MaxEntries of the
\* given entries, no two with the same name
DirStatesOf(entries) ==
    {Missing} \cup
    {[exists |-> TRUE, entries |-> es] :
        es \in {x \in SUBSET entries :
                   /\ Cardinality(x) <= MaxEntries
                   /\ \A e, f \in x : e.name = f.name => e = f}}

DirStates == DirStatesOf(EntriesOf(ToolNames, EntryTypes))

InitTools ==
    /\ hfs_name = <<>>
    /\ only_major_minor = FALSE
    /\ python_bin = None
    /\ bin_dir \in DirStates
    /\ sbin_dir \in DirStates
    /\ IdleEnv /\ IdleBind
    /\ pc = "start"
    /\ result = None

CallGetTools ==
    /\ pc = "start"
    /\ \E bl \in Enumerations(bin_dir), sl \in Enumerations(sbin_dir) :
           result' = get_tools(bl, sl)
    /\ scanned' = ScannedBy(bin_dir)
    /\ pc' = "done"
    /\ UNCHANGED <<hfs_name, only_major_minor, python_bin, bin_dir, sbin_dir,
                   environ, prev_environ, post_runs, version, requires, pkg,
                   registry, steps>>

NextTools == CallGetTools

SpecTools == InitTools /\ [][NextTools]_vars

\* "-bin" somewhere in a name
HasDashBin(name) ==
    \E i \in 1..Len(name) :
        /\ i + 3 <= Len(name)
        /\ name[i] = "-" /\ name[i + 1] = "b"
        /\ name[i + 2] = "i" /\ name[i + 3] = "n"

\* The entries of a directory that are regular files, not symbolic links,
\* executable, and without "-bin" in the name
UserTools(dir) ==
    {e \in dir.entries : e.kind = "file" /\ e.exec /\ ~HasDashBin(e.name)}

\* C5: when bin and houdini/sbin both exist, get_tools returns exactly the
\* names of the entries that are regular files, are not symbolic links, are
\* executable and have no "-bin" in their name: none is missing and no
\* other entry appears.
C5_ToolsExactlyQualifying ==
    (pc = "done" /\ bin_dir.exists /\ sbin_dir.exists) =>
        /\ result.kind = "ok"
        /\ {result.value[i] : i \in 1..Len(result.value)}
               = {e.name : e \in UserTools(bin_dir) \cup UserTools(sbin_dir)}

C5_Witness ==
    /\ pc = "done"
    /\ bin_dir.exists /\ sbin_dir.exists
    /\ \E e \in bin_dir.entries : e.kind = "symlink_file" /\ e.exec
    /\ \E e \in bin_dir.entries : e.kind = "file" /\ e.exec /\ ~HasDashBin(e.name)
    /\ \E e \in sbin_dir.entries : e.kind = "file" /\ e.exec /\ HasDashBin(e.name)
    /\ \E e \in sbin_dir.entries : e.kind = "file" /\ ~e.exec
    /\ result = Ok(<< <<"h", "y", "t", "h", "o", "n">> >>)

\* How many times a name occurs in a list
Occurrences(s, x) == Cardinality({i \in 1..Len(s) : s[i] = x})

\* C6 as stated: the list get_tools returns is strictly ascending, each
\* name less than the next, so no name occurs twice.
C6_ToolsStrictlyAscending ==
    (pc = "done" /\ result.kind = "ok") =>
        \A i \in 1..(Len(result.value) - 1) :
            LexLess(result.value[i], result.value[i + 1])

\* C6 amended: the list get_tools returns is ascending, no name greater
\* than the next, and a name occurs in it once for each of the two
\* directories in which it qualifies (twice when it qualifies in both).
C6_ToolsAscendingWithRepeats ==
    (pc = "done" /\ result.kind = "ok") =>
        /\ \A i \in 1..(Len(result.value) - 1) :
               ~LexLess(result.value[i + 1], result.value[i])
        /\ \A n \in ToolNames :
               Occurrences(result.value, n)
                   = Cardinality({e \in UserTools(bin_dir) : e.name = n})
                       + Cardinality({e \in UserTools(sbin_dir) : e.name = n})

C6_Witness ==
    /\ pc = "done"
    /\ result = Ok(<< <<"M", "p", "l", "a", "y">>,
                      <<"h", "y", "t", "h", "o", "n">>,
                      <<"h", "y", "t", "h", "o", "n">> >>)

\* C7: when bin or houdini/sbin does not exist, get_tools raises the
\* directory-not-found error for the first missing one and returns no
\* list, also when bin exists and holds qualifying tools.
C7_MissingDirectoryFails ==
    (pc = "done" /\ (~bin_dir.exists \/ ~sbin_dir.exists)) =>
        /\ result.kind = "error"
        /\ result.type = "FileNotFoundError"
        /\ result.what = (IF bin_dir.exists THEN SbinDirName ELSE BinDirName)

C7_Witness ==
    /\ pc = "done"
    /\ bin_dir.exists
    /\ UserTools(bin_dir) # {}
    /\ ~sbin_dir.exists
    /\ result = Raise("FileNotFoundError", SbinDirName)

-----------------------------------------------------------------------------
(* bind *)

\* Faulty variant: the weak-requirement marker is left out
PythonRequirementPinned(python_version) ==
    <<"p", "y", "t", "h", "o", "n", "-">> \o python_version

\* f"~python-{get_python_version(hfs_path)}"
PythonRequirement(python_version) ==
    <<"~", "p", "y", "t", "h", "o", "n", "-">> \o python_version

\* make_package("houdinier", path, make_root=make_root): the maker the
\* with statement yields, nothing set on it yet
NewPackageMaker ==
    [name |-> "houdinier", version |-> None, tools |-> None,
     variants |-> None, requires |-> None, description |-> None]

\* The assignments of the with body
FilledPackageMaker(maker, tools) ==
    [maker EXCEPT !.version = version.value,
                  !.tools = tools,
                  !.variants = <<"system.variant">>,
                  !.description = "Base Houdini package",
                  !.requires = requires.value]

\* Leaving the with statement normally: the registry installs the package
Installed(packages, maker) == Append(packages, maker)

\* pkg.installed_variants: one variant of the installed package
installed_variants(maker) ==
    <<[name |-> maker.name, version |-> maker.version,
       variant |-> maker.variants[1]]>>

BindFolderNames ==
    {<<"h", "f", "s", "1", "9", ".", "5", ".", "4", "9", "3">>,
     <<"h", "f", "s", "2", "0", ".", "0">>,
     <<"h", "f", "s">>}

BindPythonBinStates ==
    {[kind |-> "absent"],
     [kind |-> "file"],
     [kind |-> "symlink", target |-> PythonLiteral \o <<"3", ".", "9">>],
     [kind |-> "symlink", target |-> PythonLiteral \o <<"3">>]}

BindToolNames == {<<"h", "y", "t", "h", "o", "n">>,
                  <<"m", "a", "n", "t", "r", "a">>,
                  <<"h", "-", "b", "i", "n">>}

BindDirStates ==
    DirStatesOf(EntriesOf(BindToolNames, {t \in EntryTypes : t.kind = "file"}))

InitBind ==
    /\ hfs_name \in BindFolderNames
    /\ only_major_minor \in BOOLEAN
    /\ python_bin \in BindPythonBinStates
    /\ bin_dir \in BindDirStates
    /\ sbin_dir \in BindDirStates
    /\ IdleEnv /\ IdleBind
    /\ pc = "start"
    /\ result = None

\* version = get_houdini_version(hfs_path, only_major_minor)
BindGetHoudiniVersion ==
    /\ pc = "start"
    /\ version' = get_houdini_version(hfs_name, only_major_minor)
    /\ steps' = Append(steps, "version")
    /\ pc' = "requires"
    /\ UNCHANGED <<hfs_name, only_major_minor, python_bin, bin_dir, sbin_dir,
                   environ, prev_environ, post_runs, requires, pkg, registry,
                   scanned, result>>

\* Faulty variant: the tool directories are scanned before the interpreter
\* version is resolved
BindGetPythonVersionAfterScan ==
    /\ pc = "requires"
    /\ scanned' = ScannedBy(bin_dir)
    /\ steps' = steps \o <<"tools", "python">>
    /\ LET r == get_python_version(python_bin)
       IN  IF r.kind = "error"
           THEN /\ result' = r
                /\ pc' = "failed"
                /\ UNCHANGED requires
           ELSE /\ requires' = Ok(<<PythonRequirement(r.value)>>)
                /\ pc' = "make_package"
                /\ UNCHANGED result
    /\ UNCHANGED <<hfs_name, only_major_minor, python_bin, bin_dir, sbin_dir,
                   environ, prev_environ, post_runs, version, pkg, registry>>

\* requires = [f"~python-{get_python_version(hfs_path)}"]: the RuntimeError
\* of get_python_version leaves bind
BindGetPythonVersion ==
    /\ pc = "requires"
    /\ steps' = Append(steps, "python")
    /\ LET r == get_python_version(python_bin)
       IN  IF r.kind = "error"
           THEN /\ result' = r
                /\ pc' = "failed"
                /\ UNCHANGED requires
           ELSE /\ requires' = Ok(<<PythonRequirement(r.value)>>)
                /\ pc' = "make_package"
                /\ UNCHANGED result
    /\ UNCHANGED <<hfs_name, only_major_minor, python_bin, bin_dir, sbin_dir,
                   environ, prev_environ, post_runs, version, pkg, registry,
                   scanned>>

\* with make_package("houdinier", path, make_root=make_root) as pkg:
BindEnterMakePackage ==
    /\ pc = "make_package"
    /\ pkg' = NewPackageMaker
    /\ pc' = "body"
    /\ UNCHANGED <<hfs_name, only_major_minor, python_bin, bin_dir, sbin_dir,
                   environ, prev_environ, post_runs, version, requires,
                   registry, scanned, steps, result>>

\* Faulty variant: the package is installed although the body raised
BindWithBodyInstallsOnError ==
    /\ pc = "body"
    /\ scanned' = ScannedBy(bin_dir)
    /\ steps' = Append(steps, "tools")
    /\ \E bl \in Enumerations(bin_dir), sl \in Enumerations(sbin_dir) :
           LET r == get_tools(bl, sl)
           IN  IF r.kind = "error"
               THEN /\ pkg' = [pkg EXCEPT !.version = version.value]
                    /\ registry' = Installed(registry, pkg')
                    /\ result' = r
                    /\ pc' = "failed"
               ELSE /\ pkg' = FilledPackageMaker(pkg, r.value)
                    /\ pc' = "exit"
                    /\ UNCHANGED <<registry, result>>
    /\ UNCHANGED <<hfs_name, only_major_minor, python_bin, bin_dir, sbin_dir,
                   environ, prev_environ, post_runs, version, requires>>

\* The body of the with statement. pkg.version is set, then get_tools runs:
\* its FileNotFoundError leaves the with statement and bind, and the
\* registry is not called.
BindWithBody ==
    /\ pc = "body"
    /\ scanned' = ScannedBy(bin_dir)
    /\ steps' = Append(steps, "tools")
    /\ \E bl \in Enumerations(bin_dir), sl \in Enumerations(sbin_dir) :
           LET r == get_tools(bl, sl)
           IN  IF r.kind = "error"
               THEN /\ pkg' = [pkg EXCEPT !.version = version.value]
                    /\ result' = r
                    /\ pc' = "failed"
               ELSE /\ pkg' = FilledPackageMaker(pkg, r.value)
                    /\ pc' = "exit"
                    /\ UNCHANGED result
    /\ UNCHANGED <<hfs_name, only_major_minor, python_bin, bin_dir, sbin_dir,
                   environ, prev_environ, post_runs, version, requires,
                   registry>>

\* The with statement is left normally: make_package installs the package
BindExitMakePackage ==
    /\ pc = "exit"
    /\ registry' = Installed(registry, pkg)
    /\ steps' = Append(steps, "register")
    /\ pc' = "return"
    /\ UNCHANGED <<hfs_name, only_major_minor, python_bin, bin_dir, sbin_dir,
                   environ, prev_environ, post_runs, version, requires, pkg,
                   scanned, result>>

\* return pkg.installed_variants
BindReturn ==
    /\ pc = "return"
    /\ result' = Ok(installed_variants(pkg))
    /\ pc' = "done"
    /\ UNCHANGED <<hfs_name, only_major_minor, python_bin, bin_dir, sbin_dir,
                   environ, prev_environ, post_runs, version, requires, pkg,
                   registry, scanned, steps>>

NextBind ==
    \/ BindGetHoudiniVersion
    \/ BindGetPythonVersion
    \/ BindEnterMakePackage
    \/ BindWithBody
    \/ BindExitMakePackage
    \/ BindReturn

SpecBind == InitBind /\ [][NextBind]_vars

\* The resolved interpreter name of the installation does not give a
\* version
PythonUnresolvable == ~IsPythonMajorMinor(ResolvedName(python_bin))

\* C1: when get_python_version or get_tools fails, bind ends with that
\* failure, the registry has installed no package and no installed variants
\* are returned; get_houdini_version does not fail. A package is installed
\* only in runs in which nothing failed.
C1_FailureRegistersNothing ==
    /\ version.kind # "error"
    /\ (pc \in {"failed", "done"} /\ PythonUnresolvable) =>
           /\ pc = "failed"
           /\ result = Raise("RuntimeError",
                             IF python_bin.kind = "symlink"
                             THEN python_bin.target ELSE PythonLiteral)
           /\ registry = <<>>
    /\ (pc \in {"failed", "done"} /\ ~PythonUnresolvable
            /\ (~bin_dir.exists \/ ~sbin_dir.exists)) =>
           /\ pc = "failed"
           /\ result.kind = "error" /\ result.type = "FileNotFoundError"
           /\ registry = <<>>
    /\ registry # <<>> =>
           ~PythonUnresolvable /\ bin_dir.exists /\ sbin_dir.exists

C1_Witness ==
    /\ pc = "failed"
    /\ pkg # None
    /\ bin_dir.exists /\ UserTools(bin_dir) # {}
    /\ result = Raise("FileNotFoundError", SbinDirName)
    /\ registry = <<>>

BindOrder == <<"version", "python", "tools", "register">>

\* C2: bind resolves the version, then the interpreter version, then
\* discovers the tools, then registers; when the interpreter version cannot
\* be resolved no tool directory has been scanned and the registry has not
\* been called.
C2_BindStepOrder ==
    /\ Len(steps) <= Len(BindOrder)
    /\ \A i \in 1..Len(steps) : steps[i] = BindOrder[i]
    /\ (pc = "failed" /\ result.type = "RuntimeError") =>
           /\ steps = <<"version", "python">>
           /\ scanned = {}
           /\ pkg = None
           /\ registry = <<>>
    /\ registry # <<>> => steps = BindOrder

C2_Witness ==
    /\ pc = "failed"
    /\ result.type = "RuntimeError"
    /\ bin_dir.exists /\ sbin_dir.exists
    /\ scanned = {}

\* C8: after a successful bind the registry holds one package, whose
\* version is get_houdini_version of the path and the flag, whose tools are
\* get_tools of the path, and whose requires is the single weak requirement
\* "~python-<major>.<minor>" on the resolved interpreter version; hfs19.5.493
\* with python3.9 and the tools hython and mantra gives version 19.5.493
\* (19.5 truncated), tools [hython, mantra] and requires [~python-3.9].
C8_DescriptorFields ==
    pc = "done" =>
        /\ Len(registry) = 1
        /\ registry[1].name = "houdinier"
        /\ registry[1].version = get_houdini_version(hfs_name, only_major_minor).value
        /\ \A bl \in Enumerations(bin_dir), sl \in Enumerations(sbin_dir) :
               registry[1].tools = get_tools(bl, sl).value
        /\ Len(registry[1].requires) = 1
        /\ registry[1].requires[1]
               = <<"~", "p", "y", "t", "h", "o", "n", "-">>
                     \o SubSeq(python_bin.target, 7, Len(python_bin.target))
        /\ (/\ hfs_name = <<"h", "f", "s", "1", "9", ".", "5", ".", "4", "9", "3">>
            /\ python_bin.target = PythonLiteral \o <<"3", ".", "9">>
            /\ {e.name : e \in UserTools(bin_dir) \cup UserTools(sbin_dir)}
                   = {<<"h", "y", "t", "h", "o", "n">>, <<"m", "a", "n", "t", "r", "a">>}
            /\ UserTools(bin_dir) \cap UserTools(sbin_dir) = {}) =>
               /\ registry[1].version
                      = (IF only_major_minor
                         THEN <<"1", "9", ".", "5">>
                         ELSE <<"1", "9", ".", "5", ".", "4", "9", "3">>)
               /\ registry[1].tools
                      = << <<"h", "y", "t", "h", "o", "n">>,
                           <<"m", "a", "n", "t", "r", "a">> >>
               /\ registry[1].requires
                      = << <<"~", "p", "y", "t", "h", "o", "n", "-", "3", ".", "9">> >>

C8_Witness ==
    /\ pc = "done"
    /\ only_major_minor
    /\ registry[1].version = <<"1", "9", ".", "5">>
    /\ registry[1].tools
           = << <<"h", "y", "t", "h", "o", "n">>, <<"m", "a", "n", "t", "r", "a">> >>
    /\ registry[1].requires
           = << <<"~", "p", "y", "t", "h", "o", "n", "-", "3", ".", "9">> >>
    /\ result.kind = "ok"

-----------------------------------------------------------------------------
(* post_commands *)

Undefined == [defined |-> FALSE]

Defined(value) == [defined |-> TRUE, value |-> value]

\* special_paths, in the order of the loop
special_paths == <<"HOUDINI_PATH", "HOUDINI_DSO_PATH", "HOUDINI_OTLSCAN_PATH",
                   "HOUDINI_SCRIPT_PATH", "HOUDINI_TOOLBAR_PATH">>

\* A variable post_commands does not name
OtherVariables == {"PATH"}

EnvVariables == {special_paths[i] : i \in 1..Len(special_paths)} \cup OtherVariables

\* defined(special_path)
defined(env, name) == env[name].defined

\* path_obj.append("&") on a defined variable: the item joins the value
\* after the path separator
AppendItem(value, item) == value \o <<":">> \o item

\* Faulty variant: "&" is appended without looking for it in the value
FixSpecialPathAlways(env, name) ==
    IF defined(env, name)
    THEN [env EXCEPT ![name] = Defined(AppendItem(@.value, <<"&">>))]
    ELSE env

\* One pass of the loop body
FixSpecialPath(env, name) ==
    IF defined(env, name) /\ ~Contains(env[name].value, <<"&">>)
    THEN [env EXCEPT ![name] = Defined(AppendItem(@.value, <<"&">>))]
    ELSE env

\* The loop over special_paths from position i on
RECURSIVE PostCommandsFrom(_, _)
PostCommandsFrom(env, i) ==
    IF i > Len(special_paths) THEN env
    ELSE PostCommandsFrom(FixSpecialPath(env, special_paths[i]), i + 1)

post_commands(env) == PostCommandsFrom(env, 1)

ValueChars == {"a", "&"}

SpecialValues == {Undefined} \cup {Defined(v) : v \in SeqsUpTo(ValueChars, MaxValueLen)}

OtherValues == {Undefined, Defined(<<"a">>), Defined(<<"&">>)}

Environments ==
    {e \in [EnvVariables -> SpecialValues \cup OtherValues] :
        /\ \A v \in OtherVariables : e[v] \in OtherValues
        /\ \A v \in EnvVariables \ OtherVariables : e[v] \in SpecialValues}

InitEnv ==
    /\ hfs_name = <<>>
    /\ only_major_minor = FALSE
    /\ python_bin = None
    /\ bin_dir = Missing
    /\ sbin_dir = Missing
    /\ environ \in Environments
    /\ prev_environ = environ
    /\ post_runs = 0
    /\ IdleBind
    /\ pc = "start"
    /\ result = None

CallPostCommands ==
    /\ post_runs < MaxPostRuns
    /\ prev_environ' = environ
    /\ environ' = post_commands(environ)
    /\ post_runs' = post_runs + 1
    /\ UNCHANGED <<hfs_name, only_major_minor, python_bin, bin_dir, sbin_dir,
                   pc, version, requires, pkg, registry, scanned, steps,
                   result>>

NextEnv == CallPostCommands

SpecEnv == InitEnv /\ [][NextEnv]_vars

HasAmpersand(value) == \E i \in 1..Len(value) : value[i] = "&"

\* C10: after post_commands, each of the five HOUDINI path variables that
\* was defined contains "&"; one that already contained "&" is unchanged,
\* one that was undefined is still undefined, and no other variable has
\* changed; a further run of post_commands changes nothing.
C10_PostCommandsIdempotent ==
    /\ post_runs >= 1 =>
           /\ \A i \in 1..Len(special_paths) :
                  LET before == prev_environ[special_paths[i]]
                      after == environ[special_paths[i]]
                  IN  /\ before.defined => after.defined /\ HasAmpersand(after.value)
                      /\ (before.defined /\ HasAmpersand(before.value)) => after = before
                      /\ ~before.defined => ~after.defined
           /\ \A v \in OtherVariables : environ[v] = prev_environ[v]
    /\ post_runs >= 2 => environ = prev_environ

C10_Witness ==
    /\ post_runs = 2
    /\ environ["HOUDINI_PATH"] = Defined(<<"a", ":", "&">>)
    /\ environ["HOUDINI_DSO_PATH"] = Undefined
    /\ environ["HOUDINI_SCRIPT_PATH"] = Defined(<<"&">>)
    /\ environ["HOUDINI_TOOLBAR_PATH"] = Defined(<<":", "&">>)
    /\ environ["PATH"] = Defined(<<"a">>)

=============================================================================
